---------------------------- MODULE Spec2Model ----------------------------
(***************************************************************************)
(* Product Store Service: the HTTP routes of service/routes.py over the    *)
(* Product data-access object.                                             *)
(*                                                                         *)
(* The routes (healthcheck, index, check_content_type, create_products,    *)
(* get_all_products, get_product, update_product, delete_product) are      *)
(* modelled from routes.py.  The Product class and the Category enum live  *)
(* in service/models.py; their behaviour is modelled from the service's    *)
(* specification (sections 3, 4.1 and 6).                                  *)
(***************************************************************************)
EXTENDS Integers, Sequences, FiniteSets, TLC

VARIABLES
    db,        \* the products table: the rows in the store's return order
    nextId,    \* the id the store assigns to the next created product
    db0,       \* the products table as it was before the last request
    request,   \* the last request served
    response   \* the response to the last request

vars == <<db, nextId, db0, request, response>>

---------------------------------------------------------------------------
(* Bounds of the model *)

\* At most this many products are stored at a time.
MaxProducts == 2

\* The store assigns ids 1 .. MaxId.
MaxId == 2

---------------------------------------------------------------------------
(* HTTP status codes used by the routes *)

HTTP_200_OK == 200

HTTP_201_CREATED == 201

HTTP_204_NO_CONTENT == 204

HTTP_404_NOT_FOUND == 404

HTTP_415_UNSUPPORTED_MEDIA_TYPE == 415

---------------------------------------------------------------------------
(* Requests *)

\* An optional value: <<>> is Python's None, <<v>> is the value v.
None == <<>>

Some(v) == <<v>>

\* Python truthiness of an optional string: None and "" are falsy.
Truthy(opt) == opt # None /\ opt[1] # ""

\* bool(s) of a string s, as in bool(avail_arg).
bool(s) == s # ""

BaseHeaders == ("Accept" :> "*/*")

\* The Content-Type values a client sends; a request may also carry none.
ContentTypes == {"application/json", "text/plain"}

HeaderSets == {BaseHeaders} \cup {BaseHeaders @@ ("Content-Type" :> ct) : ct \in ContentTypes}

Names == {"a", "b"}

\* The category names a request body may carry; "BOGUS" names no Category.
BodyCategories == {"CLOTHS", "FOOD", "BOGUS"}

\* The ids a client may name in a path: MaxId + 1 is never assigned.
ClientIds == 1 .. (MaxId + 1)

\* The id a client may put in a body.
BodyIds == {1}

Body(name, available, category) ==
    [name |-> name, description |-> "d", price |-> 5,
     available |-> available, category |-> category]

\* Valid Product JSON: every pair of values of name, available and category occurs.
ValidBodyFields ==
    {Body("a", TRUE, "FOOD"), Body("a", FALSE, "CLOTHS"),
     Body("b", TRUE, "CLOTHS"), Body("b", FALSE, "FOOD")}

\* A body the data-access layer rejects: its category names no Category.
InvalidBodyFields == {Body("a", TRUE, "BOGUS")}

BodyFields == ValidBodyFields \cup InvalidBodyFields

\* A Product JSON body, with or without an id of the client's choosing.
Bodies == BodyFields \cup
          {b @@ ("id" :> i) : b \in ValidBodyFields, i \in BodyIds}

NameArgs == {None, Some(""), Some("a")}

CategoryArgs == {None, Some(""), Some("food"), Some("bogus")}

AvailableArgs == {None, Some(""), Some("true"), Some("false"), Some("0")}

NoArgs == [name |-> None, category |-> None, available |-> None]

Request(method, path, product_id, headers, args, json) ==
    [method |-> method, path |-> path, product_id |-> product_id,
     headers |-> headers, args |-> args, json |-> json]

---------------------------------------------------------------------------
(* Responses *)

\* kind: "object" (body holds one JSON object), "array" (body is the list),
\* "empty" (no body), "html" (a static page), "error" (message holds the text).
Response(status, kind, body, message, location) ==
    [status |-> status, kind |-> kind, body |-> body,
     message |-> message, location |-> location]

\* abort(status, message): the request ends here with an error response.
abort(status, message) == Response(status, "error", <<>>, message, None)

\* An exception no handler catches: the framework's default error response.
UnhandledError == Response(500, "error", <<>>, <<"Internal Server Error">>, None)

---------------------------------------------------------------------------
(* The Product data-access object and the Category enum (service/models.py) *)

\* The Category enum: member name |-> member value.
Category == [UNKNOWN |-> 0, CLOTHS |-> 1, FOOD |-> 2]

\* getattr(Category, name): the member, or None when the lookup raises AttributeError.
getattr_Category(name) ==
    IF name \in DOMAIN Category THEN Some(Category[name]) ELSE None

\* member.name of a Category member.
CategoryName(member) == CHOOSE n \in DOMAIN Category : Category[n] = member

\* Product(): a new record, not yet persisted (id 0 stands for no id).
Product == [id |-> 0, name |-> "", description |-> "", price |-> 0,
            available |-> FALSE, category |-> Category["UNKNOWN"]]

\* product.deserialize(data): Some(the record with every mutable field taken from
\* data), or None when data is no valid Product JSON.  Whether a deserialize copies
\* an id carried by data is not determined by the specification: copiesId chooses.
deserialize(product, data, copiesId) ==
    LET member == getattr_Category(data.category) IN
    IF member = None \/ data.price < 0 THEN None
    ELSE Some([id |-> IF copiesId /\ "id" \in DOMAIN data THEN data.id ELSE product.id,
               name |-> data.name,
               description |-> data.description,
               price |-> data.price,
               available |-> data.available,
               category |-> member[1]])

\* product.serialize(): the Product JSON of a record.
serialize(product) ==
    [id |-> product.id, name |-> product.name, description |-> product.description,
     price |-> product.price, available |-> product.available,
     category |-> CategoryName(product.category)]

\* Product.find(id): the position of the row with this id, or 0 (not found).
find(store, id) ==
    IF \E i \in DOMAIN store : store[i].id = id
    THEN CHOOSE i \in DOMAIN store : store[i].id = id
    ELSE 0

\* product.create(): the store assigns the id and appends the row.
create(store, next, product) ==
    LET row == [product EXCEPT !.id = next] IN
    [db |-> Append(store, row), nextId |-> next + 1, product |-> row]

\* product.update(): the row the record was loaded from now holds the record.
update(store, i, product) == [store EXCEPT ![i] = product]

\* product.delete(): the row the record was loaded from is removed.
delete(store, i) == SubSeq(store, 1, i - 1) \o SubSeq(store, i + 1, Len(store))

\* Product.all()
all(store) == store

\* Product.find_by_name(name)
find_by_name(store, name) ==
    LET Test(p) == p.name = name IN SelectSeq(store, Test)

\* Product.find_by_category(category)
find_by_category(store, category) ==
    LET Test(p) == p.category = category IN SelectSeq(store, Test)

\* Product.find_by_availability(available)
find_by_availability(store, available) ==
    LET Test(p) == p.available = available IN SelectSeq(store, Test)

---------------------------------------------------------------------------
(* The routes (service/routes.py) *)

\* str.upper() on the category names a client sends.
upper(s) ==
    CASE s = "food" -> "FOOD"
      [] s = "bogus" -> "BOGUS"
      [] OTHER -> s

\* What a handler leaves behind: the store and the response.
Result(store, next, resp) == [db |-> store, nextId |-> next, response |-> resp]

\* [product.serialize() for product in products]
SerializeAll(products) == [i \in DOMAIN products |-> serialize(products[i])]

NotFoundMessage(product_id) ==
    <<"Product with id [", ToString(product_id), "] not found">>

DeleteNotFoundMessage(product_id) ==
    <<"Product with product_id [", ToString(product_id), "] not found">>

\* A health check that reports on the store instead of on the process.
healthcheck_reports_store(store) ==
    IF store = <<>>
    THEN Response(HTTP_204_NO_CONTENT, "empty", <<>>, <<>>, None)
    ELSE Response(HTTP_200_OK, "object", <<[status |-> 200, message |-> "OK"]>>, <<>>, None)

\* GET /health
healthcheck(store) ==
    Response(HTTP_200_OK, "object", <<[status |-> 200, message |-> "OK"]>>, <<>>, None)

\* GET /
index(store) ==
    Response(HTTP_200_OK, "html", <<>>, <<"index.html">>, None)

\* A guard that only requires the header to be present.
check_content_type_presence_only(headers, content_type) ==
    IF "Content-Type" \notin DOMAIN headers
    THEN Some(abort(HTTP_415_UNSUPPORTED_MEDIA_TYPE,
                    <<"Content-Type must be ", content_type>>))
    ELSE None

\* check_content_type(content_type): None when the request may go on,
\* Some(the 415 response) when it is aborted.
check_content_type(headers, content_type) ==
    IF "Content-Type" \notin DOMAIN headers
    THEN Some(abort(HTTP_415_UNSUPPORTED_MEDIA_TYPE,
                    <<"Content-Type must be ", content_type>>))
    ELSE IF headers["Content-Type"] = content_type
    THEN None
    ELSE Some(abort(HTTP_415_UNSUPPORTED_MEDIA_TYPE,
                    <<"Content-Type must be ", content_type>>))

\* A create that answers 201 without persisting the product.
create_products_not_saved(store, next, headers, json, copiesId, fault) ==
    LET aborted == check_content_type(headers, "application/json") IN
    IF aborted # None THEN Result(store, next, aborted[1])
    ELSE LET product == deserialize(Product, json, copiesId) IN
         IF product = None THEN Result(store, next, fault)
         ELSE Result(store, next,
                     Response(HTTP_201_CREATED, "object", <<serialize(product[1])>>, <<>>,
                              Some("/")))

\* POST /products.  fault is the response to a body that does not deserialize.
create_products(store, next, headers, json, copiesId, fault) ==
    LET aborted == check_content_type(headers, "application/json") IN
    IF aborted # None THEN Result(store, next, aborted[1])
    ELSE LET product == deserialize(Product, json, copiesId) IN
         IF product = None THEN Result(store, next, fault)
         ELSE LET created == create(store, next, product[1])
                  message == serialize(created.product)
                  location_url == "/"
              IN Result(created.db, created.nextId,
                        Response(HTTP_201_CREATED, "object", <<message>>, <<>>,
                                 Some(location_url)))

\* A list that never looks at the name parameter.
get_all_products_ignores_name(store, args) ==
    LET cat_arg == args.category
        avail_arg == args.available
        ok(products) == Response(HTTP_200_OK, "array", SerializeAll(products), <<>>, None)
    IN IF Truthy(cat_arg)
       THEN LET enum_val == getattr_Category(upper(cat_arg[1])) IN
            IF enum_val = None THEN UnhandledError
            ELSE ok(find_by_category(store, enum_val[1]))
       ELSE IF Truthy(avail_arg)
       THEN ok(find_by_availability(store, bool(avail_arg[1])))
       ELSE ok(all(store))

\* A list that tests the category parameter before the name parameter.
get_all_products_category_first(store, args) ==
    LET name_arg == args.name
        cat_arg == args.category
        avail_arg == args.available
        ok(products) == Response(HTTP_200_OK, "array", SerializeAll(products), <<>>, None)
    IN IF Truthy(cat_arg)
       THEN LET enum_val == getattr_Category(upper(cat_arg[1])) IN
            IF enum_val = None THEN UnhandledError
            ELSE ok(find_by_category(store, enum_val[1]))
       ELSE IF Truthy(name_arg) THEN ok(find_by_name(store, name_arg[1]))
       ELSE IF Truthy(avail_arg)
       THEN ok(find_by_availability(store, bool(avail_arg[1])))
       ELSE ok(all(store))

\* A list that reads available=false and available=0 as False.
get_all_products_parses_available(store, args) ==
    LET name_arg == args.name
        cat_arg == args.category
        avail_arg == args.available
        ok(products) == Response(HTTP_200_OK, "array", SerializeAll(products), <<>>, None)
    IN IF Truthy(name_arg) THEN ok(find_by_name(store, name_arg[1]))
       ELSE IF Truthy(cat_arg)
       THEN LET enum_val == getattr_Category(upper(cat_arg[1])) IN
            IF enum_val = None THEN UnhandledError
            ELSE ok(find_by_category(store, enum_val[1]))
       ELSE IF Truthy(avail_arg)
       THEN ok(find_by_availability(store, avail_arg[1] \notin {"false", "0"}))
       ELSE ok(all(store))

\* GET /products
get_all_products(store, args) ==
    LET name_arg == args.name
        cat_arg == args.category
        avail_arg == args.available
        ok(products) == Response(HTTP_200_OK, "array", SerializeAll(products), <<>>, None)
    IN IF Truthy(name_arg) THEN ok(find_by_name(store, name_arg[1]))
       ELSE IF Truthy(cat_arg)
       THEN LET enum_val == getattr_Category(upper(cat_arg[1])) IN
            IF enum_val = None THEN UnhandledError
            ELSE ok(find_by_category(store, enum_val[1]))
       ELSE IF Truthy(avail_arg)
       THEN ok(find_by_availability(store, bool(avail_arg[1])))
       ELSE ok(all(store))

\* GET /products/<int:product_id>
get_product(store, product_id) ==
    LET found == find(store, product_id) IN
    IF found = 0
    THEN abort(HTTP_404_NOT_FOUND, NotFoundMessage(product_id))
    ELSE Response(HTTP_200_OK, "object", <<serialize(store[found])>>, <<>>, None)

\* An update without the line found.id = product_id.
update_product_id_not_forced(store, next, product_id, headers, json, copiesId, fault) ==
    LET aborted == check_content_type(headers, "application/json") IN
    IF aborted # None THEN Result(store, next, aborted[1])
    ELSE LET found == find(store, product_id) IN
         IF found = 0
         THEN Result(store, next, abort(HTTP_404_NOT_FOUND, NotFoundMessage(product_id)))
         ELSE LET product == deserialize(store[found], json, copiesId) IN
              IF product = None THEN Result(store, next, fault)
              ELSE Result(update(store, found, product[1]), next,
                          Response(HTTP_200_OK, "object", <<serialize(product[1])>>, <<>>,
                                   None))

\* An update that creates the product when the id is absent.
update_product_upsert(store, next, product_id, headers, json, copiesId, fault) ==
    LET aborted == check_content_type(headers, "application/json") IN
    IF aborted # None THEN Result(store, next, aborted[1])
    ELSE LET found == find(store, product_id)
             product == deserialize(IF found = 0 THEN Product ELSE store[found],
                                    json, copiesId)
         IN IF product = None THEN Result(store, next, fault)
            ELSE LET forced == [product[1] EXCEPT !.id = product_id] IN
                 Result(IF found = 0 THEN Append(store, forced)
                        ELSE update(store, found, forced),
                        next,
                        Response(HTTP_200_OK, "object", <<serialize(forced)>>, <<>>, None))

\* An update that looks the id up before it checks the content type.
update_product_lookup_first(store, next, product_id, headers, json, copiesId, fault) ==
    LET found == find(store, product_id) IN
    IF found = 0
    THEN Result(store, next, abort(HTTP_404_NOT_FOUND, NotFoundMessage(product_id)))
    ELSE LET aborted == check_content_type(headers, "application/json") IN
         IF aborted # None THEN Result(store, next, aborted[1])
         ELSE LET product == deserialize(store[found], json, copiesId) IN
              IF product = None THEN Result(store, next, fault)
              ELSE LET forced == [product[1] EXCEPT !.id = product_id] IN
                   Result(update(store, found, forced), next,
                          Response(HTTP_200_OK, "object", <<serialize(forced)>>, <<>>, None))

\* PUT /products/<int:product_id>
update_product(store, next, product_id, headers, json, copiesId, fault) ==
    LET aborted == check_content_type(headers, "application/json") IN
    IF aborted # None THEN Result(store, next, aborted[1])
    ELSE LET found == find(store, product_id) IN
         IF found = 0
         THEN Result(store, next, abort(HTTP_404_NOT_FOUND, NotFoundMessage(product_id)))
         ELSE LET product == deserialize(store[found], json, copiesId) IN
              IF product = None THEN Result(store, next, fault)
              ELSE LET forced == [product[1] EXCEPT !.id = product_id] IN
                   Result(update(store, found, forced), next,
                          Response(HTTP_200_OK, "object", <<serialize(forced)>>, <<>>, None))

\* A delete that answers 204 without removing the row.
delete_product_not_deleted(store, next, product_id) ==
    LET found == find(store, product_id) IN
    IF found = 0
    THEN Result(store, next, abort(HTTP_404_NOT_FOUND, DeleteNotFoundMessage(product_id)))
    ELSE Result(store, next, Response(HTTP_204_NO_CONTENT, "empty", <<>>, <<>>, None))

\* DELETE /products/<int:product_id>
delete_product(store, next, product_id) ==
    LET found == find(store, product_id) IN
    IF found = 0
    THEN Result(store, next, abort(HTTP_404_NOT_FOUND, DeleteNotFoundMessage(product_id)))
    ELSE Result(delete(store, found), next,
                Response(HTTP_204_NO_CONTENT, "empty", <<>>, <<>>, None))

---------------------------------------------------------------------------
(* The service as a state machine: one action per route *)

\* The responses to a body the data-access layer rejects: the specification leaves
\* the status open between a client error and an unhandled server error.
Faults == {abort(400, <<"Bad Request">>), UnhandledError}

\* The choices that can make a difference for a body: whether its id is copied
\* matters only when it carries one, the fault only when it does not deserialize.
CopyChoices(json) == IF "id" \in DOMAIN json THEN BOOLEAN ELSE {FALSE}

FaultChoices(json) ==
    IF deserialize(Product, json, FALSE) = None THEN Faults ELSE {UnhandledError}

Init ==
    /\ db = <<>>
    /\ nextId = 1
    /\ db0 = <<>>
    /\ request = Request("NONE", "", 0, BaseHeaders, NoArgs, None)
    /\ response = Response(0, "empty", <<>>, <<>>, None)

Serve(req, result) ==
    /\ Len(result.db) <= MaxProducts
    /\ result.nextId <= MaxId + 1
    /\ db' = result.db
    /\ nextId' = result.nextId
    /\ db0' = db
    /\ request' = req
    /\ response' = result.response

Health ==
    Serve(Request("GET", "/health", 0, BaseHeaders, NoArgs, None),
          Result(db, nextId, healthcheck(db)))

Index ==
    Serve(Request("GET", "/", 0, BaseHeaders, NoArgs, None),
          Result(db, nextId, index(db)))

CreateProducts ==
    \E headers \in HeaderSets, json \in Bodies :
      \E copiesId \in CopyChoices(json), fault \in FaultChoices(json) :
        Serve(Request("POST", "/products", 0, headers, NoArgs, Some(json)),
              create_products(db, nextId, headers, json, copiesId, fault))

GetAllProducts ==
    \E args \in [name : NameArgs, category : CategoryArgs, available : AvailableArgs] :
        Serve(Request("GET", "/products", 0, BaseHeaders, args, None),
              Result(db, nextId, get_all_products(db, args)))

GetProduct ==
    \E product_id \in ClientIds :
        Serve(Request("GET", "/products/<id>", product_id, BaseHeaders, NoArgs, None),
              Result(db, nextId, get_product(db, product_id)))

UpdateProduct ==
    \E product_id \in ClientIds, headers \in HeaderSets, json \in Bodies :
      \E copiesId \in CopyChoices(json), fault \in FaultChoices(json) :
        Serve(Request("PUT", "/products/<id>", product_id, headers, NoArgs, Some(json)),
              update_product(db, nextId, product_id, headers, json, copiesId, fault))

DeleteProduct ==
    \E product_id \in ClientIds :
        Serve(Request("DELETE", "/products/<id>", product_id, BaseHeaders, NoArgs, None),
              delete_product(db, nextId, product_id))

Next ==
    \/ Health
    \/ Index
    \/ CreateProducts
    \/ GetAllProducts
    \/ GetProduct
    \/ UpdateProduct
    \/ DeleteProduct

Spec == Init /\ [][Next]_vars

---------------------------------------------------------------------------
(* Properties *)

\* The ids of the stored products.
Ids(store) == {store[i].id : i \in DOMAIN store}

\* A Product JSON without its id.
Fields(json) ==
    [name |-> json.name, description |-> json.description, price |-> json.price,
     available |-> json.available, category |-> json.category]

\* The rows of the store with a given name, availability or category, in the
\* store's order.
NamedRows(store, name) == LET Test(p) == p.name = name IN SelectSeq(store, Test)

AvailableRows(store) == LET Test(p) == p.available IN SelectSeq(store, Test)

UnavailableRows(store) == LET Test(p) == ~p.available IN SelectSeq(store, Test)

CategoryRows(store, name) ==
    LET Test(p) == CategoryName(p.category) = name IN SelectSeq(store, Test)

\* The last request declared exactly Content-Type: application/json.
JsonContentType ==
    /\ "Content-Type" \in DOMAIN request.headers
    /\ request.headers["Content-Type"] = "application/json"

IsCreate == request.method = "POST" /\ request.path = "/products"

IsList == request.method = "GET" /\ request.path = "/products"

IsRead == request.method = "GET" /\ request.path = "/products/<id>"

IsUpdate == request.method = "PUT" /\ request.path = "/products/<id>"

IsDelete == request.method = "DELETE" /\ request.path = "/products/<id>"

IsHealth == request.method = "GET" /\ request.path = "/health"

\* The message of the response names the id.
MessageNames(product_id) ==
    \E i \in DOMAIN response.message : response.message[i] = ToString(product_id)

\* C1: a POST of a valid Product JSON with Content-Type application/json answers
\* 201 with an id the store assigned, and a GET of that id right after it answers
\* 200 with that id and with the name, description, price, available and category
\* of the posted body.
C1_CreateThenRead ==
    (IsCreate /\ JsonContentType /\ Fields(request.json[1]) \in ValidBodyFields) =>
        /\ response.status = HTTP_201_CREATED
        /\ response.kind = "object"
        /\ LET created == response.body[1]
               read == get_product(db, created.id)
           IN /\ created.id \notin Ids(db0)
              /\ created.id = nextId - 1
              /\ Fields(created) = Fields(request.json[1])
              /\ read.status = HTTP_200_OK
              /\ read.kind = "object"
              /\ read.body[1].id = created.id
              /\ Fields(read.body[1]) = Fields(request.json[1])

\* A valid body that carries an id of its own was posted to a non-empty store.
C1_Witness ==
    /\ IsCreate /\ JsonContentType
    /\ Fields(request.json[1]) \in ValidBodyFields
    /\ "id" \in DOMAIN request.json[1]
    /\ db0 # <<>>
    /\ response.status = HTTP_201_CREATED
    /\ response.body[1].id # request.json[1].id

\* C2: after a DELETE of an id, whether it answered 204 or 404, a GET of that id
\* answers 404.
C2_DeleteThenRead ==
    IsDelete =>
        /\ response.status \in {HTTP_204_NO_CONTENT, HTTP_404_NOT_FOUND}
        /\ (response.status = HTTP_204_NO_CONTENT) = (request.product_id \in Ids(db0))
        /\ get_product(db, request.product_id).status = HTTP_404_NOT_FOUND

\* A stored product was deleted and another product is still stored.
C2_Witness ==
    /\ IsDelete
    /\ response.status = HTTP_204_NO_CONTENT
    /\ request.product_id \in Ids(db0)
    /\ db # <<>>

\* C3: a PUT with Content-Type application/json on an existing id, whatever the
\* body and whatever id the body carries, leaves the product stored under the path
\* id, stores no product under another id, and answers, when it answers 200, with
\* the stored product and the path id.
C3_UpdateKeepsId ==
    (IsUpdate /\ JsonContentType /\ request.product_id \in Ids(db0)) =>
        /\ Ids(db) = Ids(db0)
        /\ find(db, request.product_id) = find(db0, request.product_id)
        /\ Fields(request.json[1]) \in ValidBodyFields =>
                response.status = HTTP_200_OK
        /\ response.status = HTTP_200_OK =>
              /\ response.kind = "object"
              /\ response.body[1].id = request.product_id
              /\ response.body[1] = serialize(db[find(db, request.product_id)])
              /\ Fields(response.body[1]) = Fields(request.json[1])

\* A product was updated with a body that carries the id of no stored product,
\* different from the path id.
C3_Witness ==
    /\ IsUpdate /\ JsonContentType
    /\ "id" \in DOMAIN request.json[1]
    /\ request.json[1].id # request.product_id
    /\ request.json[1].id \notin Ids(db0)
    /\ response.status = HTTP_200_OK
    /\ db # db0

\* C4 as stated: GET /products?name=N answers 200 with exactly the stored products
\* named N, in the store's order, for every string N, the empty string included.
C4_Original ==
    (IsList /\ request.args.name # None
            /\ request.args.category = None /\ request.args.available = None) =>
        /\ response.status = HTTP_200_OK
        /\ response.body = SerializeAll(NamedRows(db, request.args.name[1]))

\* C4 amended: GET /products?name=N with a non-empty N answers 200 with exactly
\* the stored products named N, in the store's order.
C4_NameFilter ==
    (IsList /\ Truthy(request.args.name)
            /\ request.args.category = None /\ request.args.available = None) =>
        /\ response.status = HTTP_200_OK
        /\ response.kind = "array"
        /\ response.body = SerializeAll(NamedRows(db, request.args.name[1]))
        /\ db = db0

\* The name filter kept one stored product and left another one out.
C4_Witness ==
    /\ IsList /\ Truthy(request.args.name)
    /\ request.args.category = None /\ request.args.available = None
    /\ Len(response.body) >= 1
    /\ Len(response.body) < Len(db)

\* C5: a POST whose Content-Type is absent or is not exactly application/json
\* answers 415 and leaves the stored products as they were, whatever the body.
C5_CreateUnsupportedMediaType ==
    (IsCreate /\ ~JsonContentType) =>
        /\ response.status = HTTP_415_UNSUPPORTED_MEDIA_TYPE
        /\ db = db0

\* A valid body was posted as text/plain to a store that could take it.
C5_Witness ==
    /\ IsCreate
    /\ "Content-Type" \in DOMAIN request.headers
    /\ request.headers["Content-Type"] = "text/plain"
    /\ Fields(request.json[1]) \in ValidBodyFields
    /\ Len(db0) < MaxProducts
    /\ nextId <= MaxId

\* C6: GET, PUT (with Content-Type application/json) and DELETE of an id that
\* names no stored product answer 404 with a message naming the id and leave the
\* store as it was.
C6_AbsentIdNotFound ==
    (/\ IsRead \/ (IsUpdate /\ JsonContentType) \/ IsDelete
     /\ request.product_id \notin Ids(db0)) =>
        /\ response.status = HTTP_404_NOT_FOUND
        /\ MessageNames(request.product_id)
        /\ db = db0

\* A valid body was PUT on an absent id while the store could take one more product.
C6_Witness ==
    /\ IsUpdate /\ JsonContentType
    /\ request.product_id \notin Ids(db0)
    /\ Fields(request.json[1]) \in ValidBodyFields
    /\ Len(db0) >= 1
    /\ Len(db0) < MaxProducts

\* C7: GET /health answers 200 with the payload {status: 200, message: "OK"} in
\* every state of the store, and leaves the store as it was.
C7_HealthAlwaysOk ==
    IsHealth =>
        /\ response.status = HTTP_200_OK
        /\ response.kind = "object"
        /\ response.body = <<[status |-> 200, message |-> "OK"]>>
        /\ db = db0

\* The health check was served by an empty store that has held products before.
C7_Witness ==
    /\ IsHealth
    /\ db = <<>>
    /\ nextId > 1

\* C8: GET /products applies one filter, chosen name > category > available among
\* the non-empty parameters, and returns all products when none is non-empty.
C8_FilterPrecedence ==
    IsList =>
        LET name_arg == request.args.name
            cat_arg == request.args.category
            avail_arg == request.args.available
        IN IF Truthy(name_arg)
           THEN /\ response.status = HTTP_200_OK
                /\ response.body = SerializeAll(NamedRows(db, name_arg[1]))
           ELSE IF Truthy(cat_arg)
           THEN IF upper(cat_arg[1]) \in DOMAIN Category
                THEN /\ response.status = HTTP_200_OK
                     /\ response.body = SerializeAll(CategoryRows(db, upper(cat_arg[1])))
                ELSE response = UnhandledError
           ELSE IF Truthy(avail_arg)
           THEN /\ response.status = HTTP_200_OK
                /\ response.body = SerializeAll(AvailableRows(db))
           ELSE /\ response.status = HTTP_200_OK
                /\ response.body = SerializeAll(db)

\* All three parameters were supplied, and the three filters differ on the store.
C8_Witness ==
    /\ IsList
    /\ Truthy(request.args.name)
    /\ Truthy(request.args.category)
    /\ Truthy(request.args.available)
    /\ upper(request.args.category[1]) \in DOMAIN Category
    /\ NamedRows(db, request.args.name[1]) #
           CategoryRows(db, upper(request.args.category[1]))
    /\ NamedRows(db, request.args.name[1]) # AvailableRows(db)
    /\ NamedRows(db, request.args.name[1]) # db
    /\ response.body # <<>>

\* C9: GET /products?available=X with no name and no category selects, for every
\* non-empty X ("false" and "0" included), exactly the stored products whose
\* available is true; the products whose available is false are never selected.
C9_AvailableCoercion ==
    (IsList /\ request.args.name = None /\ request.args.category = None
            /\ Truthy(request.args.available)) =>
        /\ response.status = HTTP_200_OK
        /\ response.body = SerializeAll(AvailableRows(db))
        /\ \A i \in DOMAIN response.body : response.body[i].available

\* available=false was asked of a store holding an available and an unavailable product.
C9_Witness ==
    /\ IsList /\ request.args.name = None /\ request.args.category = None
    /\ request.args.available = Some("false")
    /\ AvailableRows(db) # <<>>
    /\ UnavailableRows(db) # <<>>
    /\ Len(response.body) = Len(AvailableRows(db))

\* C10: a PUT whose Content-Type is absent or is not exactly application/json
\* answers 415 whether or not the id exists, and leaves the store as it was.
C10_UpdateUnsupportedMediaType ==
    (IsUpdate /\ ~JsonContentType) =>
        /\ response.status = HTTP_415_UNSUPPORTED_MEDIA_TYPE
        /\ db = db0

\* A PUT without a Content-Type named an id that is not stored.
C10_Witness ==
    /\ IsUpdate
    /\ "Content-Type" \notin DOMAIN request.headers
    /\ request.product_id \notin Ids(db0)
    /\ db0 # <<>>

=============================================================================
